---- MODULE Spec2Model ----
(***************************************************************************)
(* Model of Bot::score (src/src/main.rs): the pants-off scoreboard.        *)
(*                                                                         *)
(* One invocation of score fetches the channel's messages, groups them by  *)
(* author, sorts each author's events, resolves display names, walks the   *)
(* calendar from 2020-01-01 to today draining each author's queue day by   *)
(* day, emits one header row and one row per author for every month, and   *)
(* finally serialises the table, dropping front rows in summary mode.      *)
(*                                                                         *)
(* A timestamp is the record of its UTC civil fields at minute precision   *)
(* (year, month, day, hour, minute): these are the only parts the code     *)
(* reads.  Strings are TLA+ strings; a message body is a sequence of       *)
(* one-character strings so that the pattern can be matched letter by      *)
(* letter.                                                                 *)
(***************************************************************************)
EXTENDS Integers, Sequences, FiniteSets, TLC

VARIABLES
    channel,            \* what messages_iter yields: Ok(message) items, "Err" at a failure
    now,                \* the clock: today's UTC date [year, month, day]
    names,              \* the display name of every user id
    full,               \* score's parameter
    search,             \* the binary search of the build's standard library
    pc,                 \* position in score
    pos,                \* number of items taken from the message stream
    table,              \* HashMap<UserId, Vec<PantsOff>>
    user_names,         \* HashMap<UserId, String>
    pretty_table,       \* rows of the prettytable::Table (titles excluded)
    has_seen_pants_off,
    year, month, day,   \* the loop variables of the calendar walk
    month_scores,       \* HashMap<UserId, MonthScore> of the current month
    today,              \* per author: the Vec `today` drained for the last processed date
    flags,              \* per author: the locals morning, evening, ... of the last processed date
    built,              \* history: the rows of the table when the calendar walk ended
    output,             \* the returned text: its rows and its length
    run,                \* 1 for the first invocation, 2 for the repeated one
    prev_output         \* what the first invocation returned

vars == <<channel, now, names, full, search, pc, pos, table, user_names, pretty_table,
          has_seen_pants_off, year, month, day, month_scores, today, flags,
          built, output, run, prev_output>>

inputs == <<channel, now, names, full, search>>

(***************************************************************************)
(* Bounds and input sets                                                   *)
(***************************************************************************)
MaxMsgs == 2

Authors == {1, 2}

NoOutput == [rows |-> <<>>, len |-> 0, returned |-> FALSE]

(***************************************************************************)
(* Calendar: chrono::NaiveDate and the civil fields of a Timestamp         *)
(***************************************************************************)
IsLeap(y) == (y % 4 = 0 /\ y % 100 # 0) \/ y % 400 = 0

DaysInMonth(y, m) ==
    IF m = 2 THEN (IF IsLeap(y) THEN 29 ELSE 28)
    ELSE IF m \in {4, 6, 9, 11} THEN 30 ELSE 31

\* a date check that takes every day number up to 31
from_ymd_any(y, m, d) == m \in 1..12 /\ d >= 1 /\ d <= 31

\* chrono::NaiveDate::from_ymd_opt(y, m, d).is_some()
from_ymd_opt(y, m, d) == m \in 1..12 /\ d >= 1 /\ d <= DaysInMonth(y, m)

\* the order of NaiveDate values
DateKey(y, m, d) == (y * 13 + m) * 32 + d

\* the order of Timestamp values (Timestamp::cmp)
TsKey(t) == (DateKey(t.year, t.month, t.day) * 24 + t.hour) * 60 + t.minute

Ts(y, m, d, h, mi) == [year |-> y, month |-> m, day |-> d, hour |-> h, minute |-> mi]

PrevDay(t) ==
    IF t.day > 1 THEN [t EXCEPT !.day = t.day - 1]
    ELSE IF t.month > 1
         THEN [t EXCEPT !.month = t.month - 1, !.day = DaysInMonth(t.year, t.month - 1)]
         ELSE [t EXCEPT !.year = t.year - 1, !.month = 12, !.day = 31]

\* America/New_York: UTC-4 from 2020-03-08 07:00Z to 2020-11-01 06:00Z, UTC-5
\* around it (the instants of the model lie between 2019-11-03 and 2021-03-14)
NewYorkOffsetHours(t) ==
    IF TsKey(Ts(2020, 3, 8, 7, 0)) <= TsKey(t) /\ TsKey(t) < TsKey(Ts(2020, 11, 1, 6, 0))
    THEN 4 ELSE 5

\* timestamp.with_timezone(&chrono_tz::America::New_York): the local civil fields
with_timezone(t) ==
    LET h == t.hour - NewYorkOffsetHours(t)
    IN  IF h >= 0 THEN [t EXCEPT !.hour = h]
        ELSE [PrevDay(t) EXCEPT !.hour = h + 24]

MonthName ==
    <<"January", "February", "March", "April", "May", "June", "July",
      "August", "September", "October", "November", "December">>

(***************************************************************************)
(* proper_regex: (?i).*p.*a.*n.*t.*s.*o.*f.*f.*  ('.' does not match a     *)
(* line feed, so the eight letters must occur in order within one line)    *)
(***************************************************************************)
Pattern == <<"p", "a", "n", "t", "s", "o", "f", "f">>

Upper(c) ==
    CASE c = "p" -> "P" [] c = "a" -> "A" [] c = "n" -> "N" [] c = "t" -> "T"
      [] c = "s" -> "S" [] c = "o" -> "O" [] c = "f" -> "F" [] OTHER -> c

RECURSIVE Scan(_, _, _)
\* k letters of the pattern are matched on the current line before body[i]
Scan(body, i, k) ==
    IF k = Len(Pattern) THEN TRUE
    ELSE IF i > Len(body) THEN FALSE
    ELSE IF body[i] = "\n" THEN Scan(body, i + 1, 0)
    ELSE IF body[i] = Pattern[k + 1] \/ body[i] = Upper(Pattern[k + 1])
         THEN Scan(body, i + 1, k + 1)
         ELSE Scan(body, i + 1, k)

is_match(body) == Scan(body, 1, 0)

(***************************************************************************)
(* Inputs: the messages of the channel, the clock and the display names    *)
(***************************************************************************)
ProperBody == <<"P", "a", "n", "t", "s", " ", "o", "f", "f">>
OtherBody == <<"p", "a", "n", "t", "s", " ", "o", "n">>

\* (send time, body) of the messages of the short runs
MorningProper == [timestamp |-> Ts(2020, 1, 2, 11, 7), content |-> ProperBody]
MorningPlain == [timestamp |-> Ts(2020, 1, 2, 11, 7), content |-> OtherBody]
EveningProper == [timestamp |-> Ts(2020, 1, 2, 23, 7), content |-> ProperBody]
LateNight == [timestamp |-> Ts(2020, 1, 3, 2, 7), content |-> ProperBody]
OffMinute == [timestamp |-> Ts(2020, 1, 2, 11, 12), content |-> ProperBody]
LastYear == [timestamp |-> Ts(2019, 12, 31, 11, 7), content |-> ProperBody]
FebruaryMorning == [timestamp |-> Ts(2020, 2, 2, 11, 7), content |-> ProperBody]

Templates == {MorningProper, MorningPlain, EveningProper, LateNight, OffMinute, LastYear}

Message(a, t) == [author |-> a, timestamp |-> t.timestamp, content |-> t.content]

Messages == {Message(a, t) : a \in Authors, t \in Templates}

SeqsUpTo(S, n) == UNION {[1..k -> S] : k \in 0..n}

\* a stream of at most MaxMsgs items: messages, then the end of the stream or a failure
Channels ==
    {[msgs |-> s, fails |-> FALSE] : s \in SeqsUpTo(Messages, MaxMsgs)}
    \cup {[msgs |-> s, fails |-> TRUE] : s \in SeqsUpTo(Messages, MaxMsgs - 1)}

ShortNow == [year |-> 2020, month |-> 1, day |-> 3]

ShortNames == (1 :> "podrick") @@ (2 :> "brienne")

\* the runs over two months: an author whose first event is in the second month
MidChannels ==
    {[msgs |-> <<Message(2, FebruaryMorning)>>, fails |-> FALSE],
     [msgs |-> <<Message(1, MorningProper), Message(2, FebruaryMorning)>>, fails |-> FALSE]}

MidNow == [year |-> 2020, month |-> 2, day |-> 3]

\* the long runs: a year of history, so that the table outgrows the budget
LongChannels == {[msgs |-> <<Message(1, MorningProper)>>, fails |-> FALSE]}

LongNow == [year |-> 2020, month |-> 12, day |-> 1]

LongNames == (1 :> "podrick_payne_the_squire") @@ (2 :> "brienne")

\* a shorter name: the budget is met as soon as the first header is removed
LongNamesShorter == (1 :> "podrick_of_the_vale") @@ (2 :> "brienne")

\* the runs over a whole month: author 1 checks in at 06:07 New York time on
\* every day of March 2020 (daylight saving time starts on March 8); the
\* stream yields the newest message first
MarchMorning(d) ==
    [timestamp |-> Ts(2020, 3, d, IF d >= 8 THEN 10 ELSE 11, 7), content |-> ProperBody]

MarchDaily == [i \in 1..31 |-> Message(1, MarchMorning(32 - i))]

\* 21:07 on February 29 in New York
LeapNight == [timestamp |-> Ts(2020, 3, 1, 2, 7), content |-> ProperBody]

MonthChannels ==
    {[msgs |-> MarchDaily, fails |-> FALSE],
     [msgs |-> Append(MarchDaily, Message(1, LeapNight)), fails |-> FALSE]}

MonthNow == [year |-> 2020, month |-> 4, day |-> 1]

\* the runs over message bodies: one message of author 1 whose body is the
\* pattern, possibly with one letter in upper case or one letter left out,
\* and with up to MaxGaps characters put between, before or after the letters
MaxGaps == 1

GapChars == {" ", "x", "\n"}

Insert(s, i, c) == SubSeq(s, 1, i) \o <<c>> \o SubSeq(s, i + 1, Len(s))

Drop(s, i) == SubSeq(s, 1, i - 1) \o SubSeq(s, i + 1, Len(s))

Bases ==
    {Pattern} \cup {[Pattern EXCEPT ![i] = Upper(Pattern[i])] : i \in 1..Len(Pattern)}
              \cup {Drop(Pattern, i) : i \in 1..Len(Pattern)}

RECURSIVE Gapped(_, _)
Gapped(S, n) ==
    IF n = 0 THEN S
    ELSE Gapped(S \cup UNION {{Insert(s, i, c) : i \in 0..Len(s), c \in GapChars} : s \in S},
                n - 1)

Bodies == Gapped(Bases, MaxGaps)

MatchChannels ==
    {[msgs |-> <<[author |-> 1, timestamp |-> MorningProper.timestamp, content |-> b]>>,
      fails |-> FALSE] : b \in Bodies}

(***************************************************************************)
(* Grouping and sorting (lines 33-45)                                      *)
(***************************************************************************)
PantsOff(m) == [timestamp |-> m.timestamp, proper |-> is_match(m.content)]

\* table.entry(author).or_insert(vec![]).push(e)
Push(t, a, e) ==
    IF a \in DOMAIN t THEN [t EXCEPT ![a] = Append(@, e)] ELSE t @@ (a :> <<e>>)

RECURSIVE InsertBeforeEqual(_, _)
\* e goes before the elements that are equal: ties are reversed
InsertBeforeEqual(s, e) ==
    IF s = <<>> THEN <<e>>
    ELSE IF TsKey(s[Len(s)].timestamp) < TsKey(e.timestamp) THEN Append(s, e)
    ELSE Append(InsertBeforeEqual(SubSeq(s, 1, Len(s) - 1), e), s[Len(s)])

RECURSIVE InsertSorted(_, _)
\* e goes after every element that is not greater: the sort is stable
InsertSorted(s, e) ==
    IF s = <<>> THEN <<e>>
    ELSE IF TsKey(s[Len(s)].timestamp) <= TsKey(e.timestamp) THEN Append(s, e)
    ELSE Append(InsertSorted(SubSeq(s, 1, Len(s) - 1), e), s[Len(s)])

RECURSIVE sort_by(_)
sort_by(s) ==
    IF s = <<>> THEN <<>>
    ELSE InsertSorted(sort_by(SubSeq(s, 1, Len(s) - 1)), s[Len(s)])

(***************************************************************************)
(* Day extraction (lines 99-105)                                           *)
(***************************************************************************)
B2N(b) == IF b THEN 1 ELSE 0

\* the closure given to partition_point: the UTC civil date of the timestamp
OnDate(e, y, m, d) ==
    e.timestamp.year = y /\ e.timestamp.month = m /\ e.timestamp.day = d

\* partition_point is a binary search.  On a queue partitioned by the
\* predicate it returns the length of the true prefix; on any other queue
\* (an event older than the first date of the walk is never matched and stays
\* at the front) the result is unspecified and depends on the search that the
\* standard library of the build implements.  Two are modelled.

RECURSIVE Halving(_, _, _, _, _, _)
\* the search that keeps the bounds left and right
Halving(q, y, m, d, left, right) ==
    IF left >= right THEN left
    ELSE LET mid == left + (right - left) \div 2
         IN  IF OnDate(q[mid + 1], y, m, d)
             THEN Halving(q, y, m, d, mid + 1, right)
             ELSE Halving(q, y, m, d, left, mid)

RECURSIVE Branchless(_, _, _, _, _, _)
\* the search that keeps a base and a size
Branchless(q, y, m, d, base, size) ==
    IF size > 1
    THEN LET half == size \div 2
             mid == base + half
         IN  Branchless(q, y, m, d,
                        IF OnDate(q[mid + 1], y, m, d) THEN mid ELSE base, size - half)
    ELSE base + B2N(OnDate(q[base + 1], y, m, d))

Searches == {"halving", "branchless"}

\* pants_offs.partition_point(|pants_off| ...) under the search s
partition_point(s, q, y, m, d) ==
    IF q = <<>> THEN 0
    ELSE IF s = "halving" THEN Halving(q, y, m, d, 0, Len(q))
    ELSE Branchless(q, y, m, d, 0, Len(q))

(***************************************************************************)
(* Classification of one day's events (lines 111-150)                      *)
(***************************************************************************)
NoFlags ==
    [morning |-> FALSE, evening |-> FALSE, morning_proper |-> FALSE,
     evening_proper |-> FALSE, alternate_time_zone |-> FALSE,
     alternate_proper |-> FALSE, saw_infraction |-> FALSE, infractions |-> 0]

\* the loop body without the `continue` of line 129
ClassifyEventNoContinue(f, e) ==
    LET timestamp == with_timezone(e.timestamp)
        g == IF timestamp.minute # 7
             THEN [f EXCEPT !.infractions = @ + 1, !.saw_infraction = TRUE]
             ELSE f
    IN  IF timestamp.hour = 6
        THEN [g EXCEPT !.morning = TRUE, !.morning_proper = @ \/ e.proper]
        ELSE IF timestamp.hour = 18
        THEN [g EXCEPT !.evening = TRUE, !.evening_proper = @ \/ e.proper]
        ELSE [g EXCEPT !.alternate_time_zone = TRUE, !.alternate_proper = @ \/ e.proper]

\* the body of the loop over `today` for one event
ClassifyEvent(f, e) ==
    LET timestamp == with_timezone(e.timestamp)
    IN  IF timestamp.minute # 7
        THEN [f EXCEPT !.infractions = @ + 1, !.saw_infraction = TRUE]
        ELSE IF timestamp.hour = 6
        THEN [f EXCEPT !.morning = TRUE, !.morning_proper = @ \/ e.proper]
        ELSE IF timestamp.hour = 18
        THEN [f EXCEPT !.evening = TRUE, !.evening_proper = @ \/ e.proper]
        ELSE [f EXCEPT !.alternate_time_zone = TRUE, !.alternate_proper = @ \/ e.proper]

RECURSIVE Classify(_)
Classify(events) ==
    IF events = <<>> THEN NoFlags
    ELSE ClassifyEvent(Classify(SubSeq(events, 1, Len(events) - 1)), events[Len(events)])

(***************************************************************************)
(* Day-level rollup into the MonthScore (lines 127, 154-184)               *)
(***************************************************************************)
MonthScoreDefault ==
    [morning_pants_off |-> 0, evening_pants_off |-> 0, proper_pants_off |-> 0,
     missed_days |-> 0, infractions |-> 0, alternate_time_zones |-> 0]

\* the test of line 154 without the alternate flag
RollupForgetsAlternate(score, f) ==
    LET s == [score EXCEPT !.infractions = @ + f.infractions]
    IN  IF ~f.morning /\ ~f.evening
        THEN [s EXCEPT !.missed_days = @ + 1]
        ELSE [s EXCEPT
                !.morning_pants_off = @ + B2N(f.morning),
                !.evening_pants_off = @ + B2N(f.evening),
                !.proper_pants_off = @ + B2N(f.morning_proper) + B2N(f.evening_proper)
                                       + B2N(f.alternate_proper),
                !.alternate_time_zones = @ + B2N(f.alternate_time_zone)]

\* line 163 adding to proper_pants_off instead of morning_pants_off
RollupMorningAsProper(score, f) ==
    LET s == [score EXCEPT !.infractions = @ + f.infractions]
    IN  IF ~f.alternate_time_zone /\ ~f.morning /\ ~f.evening
        THEN [s EXCEPT !.missed_days = @ + 1]
        ELSE [s EXCEPT
                !.evening_pants_off = @ + B2N(f.evening),
                !.proper_pants_off = @ + B2N(f.morning) + B2N(f.morning_proper)
                                       + B2N(f.evening_proper) + B2N(f.alternate_proper),
                !.alternate_time_zones = @ + B2N(f.alternate_time_zone)]

\* lines 170-184 counting one proper per day instead of one per category
RollupProperOnce(score, f) ==
    LET s == [score EXCEPT !.infractions = @ + f.infractions]
    IN  IF ~f.alternate_time_zone /\ ~f.morning /\ ~f.evening
        THEN [s EXCEPT !.missed_days = @ + 1]
        ELSE [s EXCEPT
                !.morning_pants_off = @ + B2N(f.morning),
                !.evening_pants_off = @ + B2N(f.evening),
                !.proper_pants_off = @ + B2N(f.morning_proper \/ f.evening_proper
                                               \/ f.alternate_proper),
                !.alternate_time_zones = @ + B2N(f.alternate_time_zone)]

Rollup(score, f) ==
    LET s == [score EXCEPT !.infractions = @ + f.infractions]
    IN  IF ~f.alternate_time_zone /\ ~f.morning /\ ~f.evening
        THEN [s EXCEPT !.missed_days = @ + 1]
        ELSE [s EXCEPT
                !.morning_pants_off = @ + B2N(f.morning),
                !.evening_pants_off = @ + B2N(f.evening),
                !.proper_pants_off = @ + B2N(f.morning_proper) + B2N(f.evening_proper)
                                       + B2N(f.alternate_proper),
                !.alternate_time_zones = @ + B2N(f.alternate_time_zone)]

\* month_scores.entry(author).or_insert_with(MonthScore::default)
ScoreOf(ms, a) == IF a \in DOMAIN ms THEN ms[a] ELSE MonthScoreDefault

(***************************************************************************)
(* The table and its serialisation (lines 68-79, 196-213, 218)             *)
(*                                                                         *)
(* FORMAT_NO_BORDER_LINE_SEPARATOR: no borders, '|' between columns, one   *)
(* space of padding on each side of a cell, a line of '-' and '+' under    *)
(* the titles.  Every line has as many columns as the widest row; a column *)
(* is as wide as its widest cell; the last cell of a line is not filled.   *)
(***************************************************************************)
Titles ==
    <<"Month", "Morning", "Evening", "Proper", "Missed", "Infractions",
      "Alternate Time Zones">>

Cell(row, j) == IF j <= Len(row) THEN row[j] ELSE ""

\* the width of column j over the titles and rows[1..n]
ColumnWidth(rows, j, n) ==
    LET lens == {Len(Titles[j])} \cup {Len(Cell(rows[i], j)) : i \in 1..n}
    IN  CHOOSE m \in lens : \A x \in lens : x <= m

Widths(rows) == [j \in 1..Len(Titles) |-> ColumnWidth(rows, j, Len(rows))]

RECURSIVE SumTo(_, _)
SumTo(f, n) == IF n = 0 THEN 0 ELSE f[n] + SumTo(f, n - 1)

\* one printed line of a row, line feed included
LineLen(row, w) ==
    LET n == Len(w)
    IN  SumTo([j \in 1..(n - 1) |-> 1 + w[j] + 1 + 1], n - 1) + 1 + Len(Cell(row, n)) + 1

\* the line under the titles, line feed included
SeparatorLen(w) == SumTo([j \in 1..Len(w) |-> w[j] + 2], Len(w)) + (Len(w) - 1) + 1

\* pretty_table.to_string().len()
StringLen(rows) ==
    LET w == Widths(rows)
    IN  LineLen(Titles, w) + SeparatorLen(w)
        + SumTo([i \in 1..Len(rows) |-> LineLen(rows[i], w)], Len(rows))

\* format!("{}, {}", chrono::Month::from_u32(month).unwrap().name(), year)
HeaderRow(y, m) == <<MonthName[m] \o ", " \o ToString(y)>>

\* the row of one author
ScoreRow(name, score) ==
    <<name, ToString(score.morning_pants_off), ToString(score.evening_pants_off),
      ToString(score.proper_pants_off), ToString(score.missed_days),
      ToString(score.infractions), ToString(score.alternate_time_zones)>>

\* remove_row taking the last row instead of the first
remove_last_row(rows) == IF rows = <<>> THEN rows ELSE SubSeq(rows, 1, Len(rows) - 1)

\* remove_row with an index past the end: no row is removed
remove_no_row(rows) == rows

\* pretty_table.remove_row(0): nothing happens on a table without rows
remove_row(rows) == IF rows = <<>> THEN rows ELSE Tail(rows)

\* the loop of line 203 left after its first iteration
OrdersOfOne(S) == {<<a>> : a \in S}

\* the orders in which a HashMap with these keys can be iterated
Orders(S) == {o \in [1..Cardinality(S) -> S] : \A i, j \in DOMAIN o : i # j => o[i] # o[j]}

SummaryCharBudget == 2000

\* format!("\n```\n{}\n```", string) adds the fence around the table
FenceLen == 9

(***************************************************************************)
(* The state machine of score                                              *)
(***************************************************************************)
StartYear == 2020

Locals ==
    /\ pc = "fetch"
    /\ pos = 0
    /\ table = <<>>
    /\ user_names = <<>>
    /\ pretty_table = <<>>
    /\ has_seen_pants_off = FALSE
    /\ year = StartYear /\ month = 1 /\ day = 1
    /\ month_scores = <<>>
    /\ today = <<>>
    /\ flags = <<>>
    /\ built = <<>>
    /\ output = NoOutput

InitShort ==
    /\ channel \in Channels
    /\ now = ShortNow
    /\ names = ShortNames
    /\ full \in BOOLEAN

InitMid ==
    /\ channel \in MidChannels
    /\ now = MidNow
    /\ names = ShortNames
    /\ full \in BOOLEAN

InitLong ==
    /\ channel \in LongChannels
    /\ now = LongNow
    /\ names \in {LongNames, LongNamesShorter}
    /\ full \in BOOLEAN

InitMonth ==
    /\ channel \in MonthChannels
    /\ now = MonthNow
    /\ names = ShortNames
    /\ full \in BOOLEAN

InitBodies ==
    /\ channel \in MatchChannels
    /\ now = ShortNow
    /\ names = ShortNames
    /\ full \in BOOLEAN

Init ==
    /\ InitShort \/ InitMid \/ InitLong \/ InitMonth
    /\ search \in Searches
    /\ Locals
    /\ run = 1
    /\ prev_output = NoOutput

\* the stream failed: the loop at line 33 met Some(Err(_))
FetchFailed == channel.fails /\ pos > Len(channel.msgs)

\* lines 33-40, one iteration: messages.next() is Some(Ok(message))
FetchMessage ==
    /\ pc = "fetch"
    /\ pos < Len(channel.msgs)
    /\ LET message == channel.msgs[pos + 1]
       IN  table' = Push(table, message.author, PantsOff(message))
    /\ pos' = pos + 1
    /\ UNCHANGED <<inputs, built, pc, user_names, pretty_table, has_seen_pants_off, year, month,
                   day, month_scores, today, flags, output, run, prev_output>>

\* line 33: messages.next() is None or Some(Err(_)); either ends the loop
FetchEnd ==
    /\ pc = "fetch"
    /\ pos = Len(channel.msgs)
    /\ pos' = IF channel.fails THEN pos + 1 ELSE pos
    /\ pc' = "sort"
    /\ UNCHANGED <<inputs, built, table, user_names, pretty_table, has_seen_pants_off, year,
                   month, day, month_scores, today, flags, output, run, prev_output>>

\* lines 43-45
SortTimelines ==
    /\ pc = "sort"
    /\ table' = [a \in DOMAIN table |-> sort_by(table[a])]
    /\ pc' = "names"
    /\ UNCHANGED <<inputs, built, pos, user_names, pretty_table, has_seen_pants_off, year,
                   month, day, month_scores, today, flags, output, run, prev_output>>

\* lines 47-56, every to_user succeeds
ResolveNames ==
    /\ pc = "names"
    /\ user_names' = [a \in DOMAIN table |-> names[a]]
    /\ pc' = "days"
    /\ UNCHANGED <<inputs, built, pos, table, pretty_table, has_seen_pants_off, year, month,
                   day, month_scores, today, flags, output, run, prev_output>>

\* line 55: a to_user failed and name.as_ref().unwrap() panics
ResolveNamesPanic ==
    /\ pc = "names"
    /\ \E a \in DOMAIN table :
         /\ user_names' = [b \in DOMAIN table \ {a} |-> names[b]]
         /\ pc' = "panicked"
    /\ UNCHANGED <<inputs, built, pos, table, pretty_table, has_seen_pants_off, year, month,
                   day, month_scores, today, flags, output, run, prev_output>>

\* line 90: date > today.date()
IsFuture(y, m, d) == DateKey(y, m, d) > DateKey(now.year, now.month, now.day)

\* lines 88-186, one iteration of the day loop on an existing date that is
\* not in the future: the body of the loop over the authors, for every author
ProcessDay ==
    /\ pc = "days"
    /\ day <= 31
    /\ from_ymd_opt(year, month, day)
    /\ ~IsFuture(year, month, day)
    /\ LET pp == [a \in DOMAIN table |-> partition_point(search, table[a], year, month, day)]
       IN  /\ today' = [a \in DOMAIN table |-> SubSeq(table[a], 1, pp[a])]
           /\ table' = [a \in DOMAIN table |-> SubSeq(table[a], pp[a] + 1, Len(table[a]))]
    /\ flags' = [a \in DOMAIN table |-> Classify(today'[a])]
    /\ month_scores' = [a \in DOMAIN table |-> Rollup(ScoreOf(month_scores, a), flags'[a])]
    /\ has_seen_pants_off' =
         (has_seen_pants_off \/ \E a \in DOMAIN table : today'[a] # <<>>)
    /\ day' = day + 1
    /\ UNCHANGED <<inputs, built, pc, pos, user_names, pretty_table, year, month, output, run,
                   prev_output>>

\* lines 89-96: from_ymd_opt is None, continue
SkipInvalidDate ==
    /\ pc = "days"
    /\ day <= 31
    /\ ~from_ymd_opt(year, month, day)
    /\ day' = day + 1
    /\ UNCHANGED <<inputs, built, pc, pos, table, user_names, pretty_table, has_seen_pants_off,
                   year, month, month_scores, today, flags, output, run, prev_output>>

\* lines 90-92: the date is after today, break; or the day loop is exhausted
EndDays ==
    /\ pc = "days"
    /\ \/ day > 31
       \/ from_ymd_opt(year, month, day) /\ IsFuture(year, month, day)
    /\ pc' = "month"
    /\ UNCHANGED <<inputs, built, pos, table, user_names, pretty_table, has_seen_pants_off,
                   year, month, day, month_scores, today, flags, output, run, prev_output>>

\* the next iteration of the month loop and of the year loop (lines 85-87)
NextMonth ==
    /\ month_scores' = <<>>
    /\ day' = 1
    /\ IF month < 12
       THEN month' = month + 1 /\ year' = year /\ pc' = "days"
       ELSE /\ month' = 1
            /\ year' = year + 1
            /\ pc' = IF year + 1 <= now.year THEN "days" ELSE "render"

\* the test of line 191 without the quiet-period guard
SuppressedFutureOnly == IsFuture(year, month, 1)

\* lines 188-191: !has_seen_pants_off || is_future
Suppressed == ~has_seen_pants_off \/ IsFuture(year, month, 1)

\* lines 191-193: the month is skipped
SkipMonth ==
    /\ pc = "month"
    /\ Suppressed
    /\ NextMonth
    /\ UNCHANGED <<inputs, pos, table, user_names, pretty_table, has_seen_pants_off,
                   today, flags, output, run, prev_output>>
    /\ built' = IF pc' = "render" THEN pretty_table' ELSE built

\* lines 195-213: the header row, then one row per entry of month_scores
EmitMonth ==
    /\ pc = "month"
    /\ ~Suppressed
    /\ \E o \in Orders(DOMAIN month_scores) :
         pretty_table' =
           pretty_table \o <<HeaderRow(year, month)>>
             \o [i \in 1..Len(o) |-> ScoreRow(user_names[o[i]], month_scores[o[i]])]
    /\ NextMonth
    /\ UNCHANGED <<inputs, pos, table, user_names, has_seen_pants_off, today, flags,
                   output, run, prev_output>>
    /\ built' = IF pc' = "render" THEN pretty_table' ELSE built

\* lines 217-223: the table is over the budget in summary mode
TruncateRow ==
    /\ pc = "render"
    /\ ~full /\ StringLen(pretty_table) > SummaryCharBudget
    /\ pretty_table' = remove_row(pretty_table)
    /\ UNCHANGED <<inputs, built, pc, pos, table, user_names, has_seen_pants_off, year, month,
                   day, month_scores, today, flags, output, run, prev_output>>

\* line 225
Return ==
    /\ pc = "render"
    /\ ~(~full /\ StringLen(pretty_table) > SummaryCharBudget)
    /\ output' = [rows |-> pretty_table, len |-> StringLen(pretty_table) + FenceLen,
                  returned |-> TRUE]
    /\ pc' = "done"
    /\ UNCHANGED <<inputs, built, pos, table, user_names, pretty_table, has_seen_pants_off,
                   year, month, day, month_scores, today, flags, run, prev_output>>

\* score is called again on the same channel, clock, names and mode
Rerun ==
    /\ pc = "done"
    /\ run = 1
    /\ run' = 2
    /\ prev_output' = output
    /\ pc' = "fetch"
    /\ pos' = 0
    /\ table' = <<>>
    /\ user_names' = <<>>
    /\ pretty_table' = <<>>
    /\ has_seen_pants_off' = FALSE
    /\ year' = StartYear /\ month' = 1 /\ day' = 1
    /\ month_scores' = <<>>
    /\ today' = <<>>
    /\ flags' = <<>>
    /\ built' = <<>>
    /\ output' = NoOutput
    /\ UNCHANGED inputs

Next ==
    \/ FetchMessage
    \/ FetchEnd
    \/ SortTimelines
    \/ ResolveNames
    \/ ResolveNamesPanic
    \/ ProcessDay
    \/ SkipInvalidDate
    \/ EndDays
    \/ SkipMonth
    \/ EmitMonth
    \/ TruncateRow
    \/ Return
    \/ Rerun

Spec == Init /\ [][Next]_vars

\* the fetch loop alone (lines 27-40), over the message bodies
InitMatch ==
    /\ InitBodies
    /\ search \in Searches
    /\ Locals
    /\ run = 1
    /\ prev_output = NoOutput

NextMatch ==
    \/ FetchMessage
    \/ FetchEnd

SpecMatch == InitMatch /\ [][NextMatch]_vars

\* score runs to its end on the runs over two months and over a year: an
\* iteration of the loop of lines 217-226 that can be taken is taken
InitFair ==
    /\ InitMid \/ InitLong
    /\ search \in Searches
    /\ Locals
    /\ run = 1
    /\ prev_output = NoOutput

FairSpec == InitFair /\ [][Next]_vars /\ WF_vars(TruncateRow) /\ WF_vars(Return)

(***************************************************************************)
(* What the claims speak of                                                *)
(***************************************************************************)
Min(a, b) == IF a <= b THEN a ELSE b

\* the messages taken from the stream so far
Taken == SubSeq(channel.msgs, 1, Min(pos, Len(channel.msgs)))

\* the events of author a, in the order in which they were fetched
RECURSIVE EventsOf(_, _)
EventsOf(msgs, a) ==
    IF msgs = <<>> THEN <<>>
    ELSE LET rest == EventsOf(SubSeq(msgs, 1, Len(msgs) - 1), a)
             m == msgs[Len(msgs)]
         IN  IF m.author = a THEN Append(rest, PantsOff(m)) ELSE rest

\* the timeline of author a: all the events fetched, ascending
Timeline(a) == sort_by(EventsOf(Taken, a))

\* an event falls on the date y-m-d of the reference timezone
OnLocalDate(e, y, m, d) ==
    LET l == with_timezone(e.timestamp)
    IN  l.year = y /\ l.month = m /\ l.day = d

RECURSIVE Filter(_, _, _, _)
\* the events of s that fall on the local date y-m-d, in the order of s
Filter(s, y, m, d) ==
    IF s = <<>> THEN <<>>
    ELSE LET rest == Filter(SubSeq(s, 1, Len(s) - 1), y, m, d)
         IN  IF OnLocalDate(s[Len(s)], y, m, d) THEN Append(rest, s[Len(s)]) ELSE rest

\* this step is one iteration of the day loop that processed the date year-month-day
DayProcessed == pc = "days" /\ day' = day + 1 /\ from_ymd_opt(year, month, day)

\* C1: on every processed date and for every author, the events extracted
\* from the author's queue are exactly the author's events whose calendar
\* date in America/New_York is that date.
C1_ExtractsLocalDate ==
    [][DayProcessed =>
         \A a \in DOMAIN table : today'[a] = Filter(Timeline(a), year, month, day)]_vars

\* the flags of a day say that some category was set
AnyCategory(f) == f.morning \/ f.evening \/ f.alternate_time_zone

\* C2: on every processed date and for every author, missed_days grows (by
\* one) exactly when none of morning, evening and alternate was set for the
\* date, and then none of the morning, evening, alternate and proper counts
\* changes.
C2_MissedExclusive ==
    [][DayProcessed =>
         \A a \in DOMAIN table :
            LET before == ScoreOf(month_scores, a)
                after == month_scores'[a]
                f == flags'[a]
            IN  /\ after.missed_days = before.missed_days + B2N(~AnyCategory(f))
                /\ ~AnyCategory(f) =>
                     /\ after.morning_pants_off = before.morning_pants_off
                     /\ after.evening_pants_off = before.evening_pants_off
                     /\ after.alternate_time_zones = before.alternate_time_zones
                     /\ after.proper_pants_off = before.proper_pants_off]_vars

\* a day that is missed although an infraction was recorded on it, after a
\* day of the same month that was counted
C2_Witness ==
    /\ pc = "days"
    /\ \E a \in DOMAIN flags :
         /\ flags[a].saw_infraction /\ ~AnyCategory(flags[a])
         /\ month_scores[a].missed_days >= 1
         /\ month_scores[a].infractions >= 1

\* C3: in summary mode the text that score returns is at most 2000
\* characters long.
C3_SummaryWithinBudget ==
    (pc = "done" /\ ~full) => output.len <= SummaryCharBudget

\* C4: a second run of score on the same messages, names, mode and clock
\* returns the same text, rows in the same order.
C4_RerunIdentical ==
    (run = 2 /\ pc = "done") => output = prev_output

\* the month of the first event of author a, in the reference timezone
FirstLocal(a) == with_timezone(Timeline(a)[1].timestamp)

MonthKey(y, m) == y * 12 + m

\* rows[i] is the header of y-m and rows[j] is a row of `name` under it
RowUnder(rows, i, j, y, m, name) ==
    /\ i < j
    /\ rows[i] = HeaderRow(y, m)
    /\ Len(rows[j]) = Len(Titles) /\ rows[j][1] = name
    /\ \A k \in (i + 1)..j : Len(rows[k]) = Len(Titles)

HasRecord(rows, y, m, name) ==
    \E i, j \in 1..Len(rows) : RowUnder(rows, i, j, y, m, name)

\* this step ends the calendar walk: pretty_table' is the table as built
TableBuilt == pc = "month" /\ pc' = "render"

\* C5: in the table as built, before any truncation, every author with an
\* event has a row under the header of every month from the month of the
\* author's first event through the current month.
C5_RecordForEveryMonth ==
    [][TableBuilt =>
         \A a \in Authors : \A y \in (StartYear - 1)..now.year : \A m \in 1..12 :
            ( /\ Timeline(a) # <<>>
              /\ MonthKey(FirstLocal(a).year, FirstLocal(a).month) <= MonthKey(y, m)
              /\ MonthKey(y, m) <= MonthKey(now.year, now.month) )
            => HasRecord(pretty_table', y, m, names[a])]_vars

RECURSIVE Remaining(_)
\* the number of events still queued for the authors of S
Remaining(S) ==
    IF S = {} THEN 0
    ELSE LET a == CHOOSE x \in S : TRUE IN Len(table[a]) + Remaining(S \ {a})

\* some event has been extracted from a queue by the calendar walk
Observed == Remaining(DOMAIN table) < Len(Taken)

\* this step decides whether the month year-month is emitted
MonthDecided == pc = "month" /\ pc' # "month"

Emitted ==
    /\ Len(pretty_table') > Len(pretty_table)
    /\ SubSeq(pretty_table', 1, Len(pretty_table) + 1)
         = Append(pretty_table, HeaderRow(year, month))

\* C6: a month is emitted exactly when an event has been observed by the end
\* of the month's walk and the month's first day is not after today; a
\* month that is not emitted adds no row at all; so a table with rows needs
\* an observed event, and an empty event set gives an empty table.
C6_QuietPeriod ==
    /\ [][MonthDecided =>
            IF Observed /\ ~IsFuture(year, month, 1)
            THEN Emitted
            ELSE pretty_table' = pretty_table]_vars
    /\ [](pretty_table # <<>> => Observed /\ channel.msgs # <<>>)

\* the table of a run whose first event falls in February: January, walked
\* before the event was observed, is not in it
C6_Witness ==
    /\ pc = "render"
    /\ pretty_table # <<>>
    /\ pretty_table[1] = HeaderRow(StartYear, 2)

Categories(f) == B2N(f.morning) + B2N(f.evening) + B2N(f.alternate_time_zone)

\* C7: on every processed date the proper count of an author grows by at
\* most the number of categories set that day (0 to 3), so in every monthly
\* record proper <= morning + evening + alternate.
C7_ProperBound ==
    /\ [][DayProcessed =>
            \A a \in DOMAIN table :
               LET grown == month_scores'[a].proper_pants_off
                              - ScoreOf(month_scores, a).proper_pants_off
               IN  0 <= grown /\ grown <= Categories(flags'[a])]_vars
    /\ [](\A a \in DOMAIN month_scores :
            month_scores[a].proper_pants_off
              <= month_scores[a].morning_pants_off + month_scores[a].evening_pants_off
                   + month_scores[a].alternate_time_zones)

\* a day with a proper morning and a proper evening event: proper grew by two
C7_Witness ==
    \E a \in DOMAIN month_scores :
       /\ month_scores[a].proper_pants_off = 2
       /\ month_scores[a].morning_pants_off = 1
       /\ month_scores[a].evening_pants_off = 1

IsInfraction(e) == with_timezone(e.timestamp).minute # 7

LocalHour(e) == with_timezone(e.timestamp).hour

\* the on-time events of evs whose local hour is in H
OnTime(evs, H) == {i \in 1..Len(evs) : ~IsInfraction(evs[i]) /\ LocalHour(evs[i]) \in H}

\* C8: every extracted event whose local minute is not 7 adds one to the
\* infractions of the month and sets no flag; the flags are those of the
\* other events of the day; a day with nothing but infractions is missed.
C8_Infractions ==
    [][DayProcessed =>
         \A a \in DOMAIN table :
            LET evs == today'[a]
                f == flags'[a]
                before == ScoreOf(month_scores, a)
                after == month_scores'[a]
                late == {i \in 1..Len(evs) : IsInfraction(evs[i])}
                other == (0..23) \ {6, 18}
            IN  /\ after.infractions = before.infractions + Cardinality(late)
                /\ f.morning <=> OnTime(evs, {6}) # {}
                /\ f.evening <=> OnTime(evs, {18}) # {}
                /\ f.alternate_time_zone <=> OnTime(evs, other) # {}
                /\ f.morning_proper <=> \E i \in OnTime(evs, {6}) : evs[i].proper
                /\ f.evening_proper <=> \E i \in OnTime(evs, {18}) : evs[i].proper
                /\ f.alternate_proper <=> \E i \in OnTime(evs, other) : evs[i].proper
                /\ (late = 1..Len(evs)) => after.missed_days = before.missed_days + 1]_vars

\* a day with an infraction and an on-time morning event of the same author
C8_Witness ==
    /\ pc = "days"
    /\ \E a \in DOMAIN today :
         /\ Len(today[a]) = 2
         /\ flags[a].infractions = 1 /\ flags[a].morning
         /\ month_scores[a].infractions = 1 /\ month_scores[a].morning_pants_off = 1

\* C9: when the message stream fails, score returns no report.
C9_FailurePropagated == FetchFailed => ~output.returned

\* C10: a failed display-name lookup does not make score panic.
C10_LookupFailureHandled == pc # "panicked"


\* s is what is left of t after some of its first rows were removed
IsSuffix(s, t) ==
    /\ Len(s) <= Len(t)
    /\ s = SubSeq(t, Len(t) - Len(s) + 1, Len(t))

\* C11: the rows of the rendered table are a contiguous suffix, in the same
\* order and with the same contents, of the rows built by the calendar
\* walk; in full mode they are all the rows built.
C11_RenderedIsSuffix ==
    /\ pc = "render" => IsSuffix(pretty_table, built) /\ (full => pretty_table = built)
    /\ output.returned =>
         /\ output.rows = pretty_table
         /\ IsSuffix(output.rows, built)
         /\ full => output.rows = built

\* a summary that lost rows at the front
C11_Witness ==
    /\ output.returned /\ ~full
    /\ output.rows # <<>>
    /\ Len(output.rows) < Len(built)

IsHeader(row) == Len(row) = 1

\* the months whose header is the row
HeaderMonths(row) ==
    {ym \in (StartYear..now.year) \X (1..12) : row = HeaderRow(ym[1], ym[2])}

\* the headers of rows are those of months in chronological order
Chronological(rows) ==
    \A i, j \in 1..Len(rows) :
       (i < j /\ IsHeader(rows[i]) /\ IsHeader(rows[j])) =>
          \A a \in HeaderMonths(rows[i]) : \A b \in HeaderMonths(rows[j]) :
             MonthKey(a[1], a[2]) < MonthKey(b[1], b[2])

\* every row of an author stands under a header: the rows are a suffix of
\* the rows built, where every block starts with its header, so the rows of
\* an author that precede the first header have lost the header of their month
Grouped(rows) == rows # <<>> => IsHeader(rows[1])

\* C12: in the rendered table, in both modes and after truncation, the
\* headers are in chronological order and every row of an author stands
\* under the header of its own month.
C12_GroupedChronological ==
    output.returned => Chronological(output.rows) /\ Grouped(output.rows)


\* author a has exactly one event on every day of the month y-m of the
\* reference timezone, at 06:07 local time and matching the pattern
DailyProperMorning(a, y, m) ==
    \A d \in 1..DaysInMonth(y, m) :
       LET evs == Filter(Timeline(a), y, m, d)
       IN  /\ Len(evs) = 1
           /\ LocalHour(evs[1]) = 6 /\ ~IsInfraction(evs[1])
           /\ evs[1].proper

\* the walk of the month year-month is over and covered all its days
MonthElapsed == pc = "month" /\ day > 31 /\ ~IsFuture(year, month, DaysInMonth(year, month))

\* C13: an author with exactly one event on every day of a fully elapsed
\* month, each at 06:07 local time and proper, has morning = proper = the
\* number of days of the month and no missed day, infraction, evening or
\* alternate in the record of that month.
C13_PerfectMonth ==
    MonthElapsed =>
       \A a \in DOMAIN table :
          DailyProperMorning(a, year, month) =>
             /\ a \in DOMAIN month_scores
             /\ month_scores[a] =
                  [morning_pants_off |-> DaysInMonth(year, month),
                   evening_pants_off |-> 0,
                   proper_pants_off |-> DaysInMonth(year, month),
                   missed_days |-> 0,
                   infractions |-> 0,
                   alternate_time_zones |-> 0]


RECURSIVE Letters(_, _, _)
\* the letters of the pattern from the k+1st on occur in this order in
\* body[i..], in either case, whatever lies between them
Letters(body, i, k) ==
    IF k = Len(Pattern) THEN TRUE
    ELSE IF i > Len(body) THEN FALSE
    ELSE IF body[i] = Pattern[k + 1] \/ body[i] = Upper(Pattern[k + 1])
         THEN Letters(body, i + 1, k + 1)
         ELSE Letters(body, i + 1, k)

IsSubsequence(body) == Letters(body, 1, 0)

\* the messages of author a the fetch loop has taken, in stream order
FetchedBy(a) ==
    LET IsBy(m) == m.author = a
    IN  SelectSeq(SubSeq(channel.msgs, 1, Min(pos, Len(channel.msgs))), IsBy)

\* C14: an event is proper exactly when the letters p, a, n, t, s, o, f, f
\* occur in the message in that order, in either case, with anything at all
\* (line breaks included) between, before and after them.
C14_ProperIffSubsequence ==
    pc \in {"fetch", "sort"} =>
       \A a \in DOMAIN table :
          \A i \in 1..Len(table[a]) :
             table[a][i].proper = IsSubsequence(FetchedBy(a)[i].content)


\* C15: the front of a queue only advances: on every processed date the
\* events extracted are a prefix of the queue and the rest stays, so every
\* event is extracted once at most; and when the calendar walk ends no event
\* is left in any queue.
C15_ExtractedExactlyOnce ==
    [][/\ DayProcessed =>
             \A a \in DOMAIN table : today'[a] \o table'[a] = table[a]
       /\ TableBuilt =>
             \A a \in DOMAIN table : table'[a] = <<>>]_vars


Hours == 0..23

\* some on-time event of evs has its local hour in H
Some(evs, H) == B2N(OnTime(evs, H) # {})

\* some on-time event of evs with its local hour in H is proper
SomeProper(evs, H) == B2N(\E i \in OnTime(evs, H) : evs[i].proper)

\* C16: on every processed date and for every author, each of the morning,
\* evening and alternate counts grows by one if the events extracted for the
\* date hold an on-time event of that category, however many, and by nothing
\* otherwise; the categories are independent, and the proper count grows by
\* one for every category that has a proper on-time event (a proper event at
\* local hour 6 and another at local hour 18: 1, 1 and 2).
C16_OncePerCategory ==
    [][DayProcessed =>
          \A a \in DOMAIN table :
             LET evs == today'[a]
                 old == ScoreOf(month_scores, a)
                 new == month_scores'[a]
             IN  /\ new.morning_pants_off = old.morning_pants_off + Some(evs, {6})
                 /\ new.evening_pants_off = old.evening_pants_off + Some(evs, {18})
                 /\ new.alternate_time_zones
                      = old.alternate_time_zones + Some(evs, Hours \ {6, 18})
                 /\ new.proper_pants_off
                      = old.proper_pants_off + SomeProper(evs, {6}) + SomeProper(evs, {18})
                          + SomeProper(evs, Hours \ {6, 18})]_vars

\* two on-time morning events on the first date with events: morning is one
C16_Witness ==
    \E a \in DOMAIN today :
       /\ pc = "days"
       /\ Cardinality(OnTime(today[a], {6})) = 2
       /\ a \in DOMAIN month_scores
       /\ month_scores[a].morning_pants_off = 1


NonDecreasing(s) ==
    \A i \in 1..(Len(s) - 1) : TsKey(s[i].timestamp) <= TsKey(s[i + 1].timestamp)

\* the events of s with the instant of e, in the order of s
AtInstant(s, e) ==
    LET Same(x) == x.timestamp = e.timestamp
    IN  SelectSeq(s, Same)

\* s holds the events of t, each as often as t, and those of one instant in
\* the order they have in t
StablePermutation(s, t) ==
    /\ Len(s) = Len(t)
    /\ \A i \in 1..Len(t) : AtInstant(s, t[i]) = AtInstant(t, t[i])

\* C17: once the queues are sorted, the queue of every author with a fetched
\* message holds exactly that author's fetched events (equal instants both
\* kept, in their fetch order) in non-decreasing order of instant, and every
\* queue stays non-decreasing through the calendar walk.
C17_SortedStablePermutation ==
    /\ pc = "names" =>
          /\ DOMAIN table = {Taken[i].author : i \in 1..Len(Taken)}
          /\ \A a \in DOMAIN table : StablePermutation(table[a], EventsOf(Taken, a))
    /\ pc \notin {"fetch", "sort"} =>
          \A a \in DOMAIN table : NonDecreasing(table[a])

\* the sort has put two events of one author in another order than the stream
C17_Witness ==
    /\ pc = "names"
    /\ \E a \in DOMAIN table : Len(table[a]) = 2 /\ table[a] # EventsOf(Taken, a)


\* C18: the loop that shortens the table terminates: whenever the table is
\* built, score returns after finitely many removals of the first row, and
\* in summary mode the table it returns is within the budget.
C18_TruncationTerminates ==
    (pc = "render") ~>
       (pc = "done" /\ output.returned
          /\ (full \/ StringLen(output.rows) <= SummaryCharBudget))

\* in the middle of the loop: a row is gone and the table is still too long
C18_Witness ==
    /\ pc = "render" /\ ~full
    /\ Len(pretty_table) < Len(built)
    /\ StringLen(pretty_table) > SummaryCharBudget


\* the dates of the month year-month the day loop has processed so far:
\* those that exist and are not after today
ProcessedDays ==
    Cardinality({d \in 1..Min(day - 1, DaysInMonth(year, month)) : ~IsFuture(year, month, d)})

\* C19: in the record of the month being walked, the missed days and the
\* days with a category set add up to the days processed: every processed
\* date adds one to exactly one of the two, and no other step of the day
\* loop (a date that does not exist, a date after today) changes a counter;
\* so missed_days is at most the days processed, which are at most the days
\* of the month, and each of the morning, evening and alternate counts is at
\* most the days processed less the missed days.
C19_DaysAddUp ==
    /\ [][/\ DayProcessed =>
                \A a \in DOMAIN table :
                   month_scores'[a].missed_days + B2N(AnyCategory(flags'[a]))
                     = ScoreOf(month_scores, a).missed_days + 1
          /\ (pc = "days" /\ ~DayProcessed) => month_scores' = month_scores]_vars
    /\ [](pc \in {"days", "month"} =>
            \A a \in DOMAIN month_scores :
               LET s == month_scores[a]
                   counted == ProcessedDays - s.missed_days
               IN  /\ ProcessedDays <= DaysInMonth(year, month)
                   /\ s.missed_days <= ProcessedDays
                   /\ s.morning_pants_off <= counted
                   /\ s.evening_pants_off <= counted
                   /\ s.alternate_time_zones <= counted
                   /\ counted <= s.morning_pants_off + s.evening_pants_off
                                   + s.alternate_time_zones)

\* April 2020 walked to its end, day 31 skipped: thirty days, all missed
C19_Witness ==
    /\ pc = "month" /\ year = 2020 /\ month = 4 /\ day = 32
    /\ 1 \in DOMAIN month_scores
    /\ month_scores[1].missed_days = 30


\* the authors with at least one fetched event
FetchedAuthors == {Taken[i].author : i \in 1..Len(Taken)}

UtcMonth(e) == MonthKey(e.timestamp.year, e.timestamp.month)

LocalMonth(e) == MonthKey(with_timezone(e.timestamp).year, with_timezone(e.timestamp).month)

\* author a has no event in the month year-month, by either calendar: the
\* month is before the author's first event, after the last, or between two
NoEventIn(a) ==
    \A i \in 1..Len(Timeline(a)) :
       /\ UtcMonth(Timeline(a)[i]) # MonthKey(year, month)
       /\ LocalMonth(Timeline(a)[i]) # MonthKey(year, month)

\* the rows this step adds to the table
Added == SubSeq(pretty_table', Len(pretty_table) + 1, Len(pretty_table'))

\* C20: the rows of every emitted month are its header and exactly one data
\* row for every author with a fetched event, whether or not the author has
\* an event in the month; and the row of an author with no event in the
\* month (a month before the first event or after the queue is drained)
\* counts every processed day of the month as missed and nothing else.
C20_RowForEveryAuthor ==
    [][(pc = "month" /\ pretty_table' # pretty_table) =>
          /\ Added[1] = HeaderRow(year, month)
          /\ \A k \in 2..Len(Added) :
                /\ Len(Added[k]) = Len(Titles)
                /\ \E a \in FetchedAuthors : Added[k][1] = names[a]
          /\ \A a \in FetchedAuthors :
                /\ Cardinality({k \in 2..Len(Added) : Added[k][1] = names[a]}) = 1
                /\ NoEventIn(a) =>
                      \E k \in 2..Len(Added) :
                         Added[k] = ScoreRow(names[a],
                                             [MonthScoreDefault EXCEPT
                                                !.missed_days = ProcessedDays])]_vars

\* February after podrick's only event, of January, was extracted: podrick
\* has a row under February with the three days processed all missed
C20_Witness ==
    \E i, j \in 1..Len(pretty_table) :
       /\ RowUnder(pretty_table, i, j, 2020, 2, "podrick")
       /\ pretty_table[j] = ScoreRow("podrick", [MonthScoreDefault EXCEPT !.missed_days = 3])

====
